---------------------------- MODULE Spec2Model ----------------------------
(***************************************************************************)
(* A model of fx/nnc_compile.py: the lowering driver nnc_compile (the walk *)
(* over the traced graph, the code generation call and the callable f it   *)
(* returns), the graph utilities truncate and remove_args, and the helper  *)
(* index_or_broadcast.                                                     *)
(*                                                                         *)
(* A traced graph is a sequence of nodes in definition order.  A node's    *)
(* name is its position in the traced graph (fx keeps names unique).       *)
(***************************************************************************)
EXTENDS Naturals, Sequences, FiniteSets

VARIABLES
    graph,          \* the traced graph (fx_model.graph.nodes) with ShapeProp's meta
    pc,             \* position of the next node of nnc_compile's for loop
    status,         \* where the program is: "tracing", "traced", "walking", ...
    err,            \* the exception that ended the walk ("" when none)
    env,            \* nnc_compile's env: node name -> handle (or Unbound)
    envWrites,      \* number of assignments env[node.name] = ... per name
    inputs,         \* nnc_compile's inputs: the te.Placeholders, in order
    module_attrs,   \* nnc_compile's module_attrs: the get_attr nodes, in order
    compute_stmts,  \* nnc_compile's compute_stmts
    outs,           \* nnc_compile's outs: (handles, [(shape, dtype)]) or None
    shapeLog,       \* every shape handed to te.* or torch.empty, with its site
    visited,        \* per walked node: how the walk disposed of it
    cg,             \* the BufferArg list given to te.construct_codegen
    alloc_results,  \* the pre-allocated default output tensors
    module_stuff,   \* the captured-state tensors bound at call time
    frames,         \* per caller thread: the activation of f
    mem,            \* tensor -> number of the kernel run that wrote it last (0: never)
    ncalls,         \* kernel runs so far
    held,           \* tensors the callers hold a reference to
    erased,         \* remove_args: names erased from fx_model.graph so far
    rm_i,           \* remove_args: position of the for loop
    k,              \* truncate: the argument k
    new_graph,      \* truncate: the graph being built
    tenv,           \* truncate: env, original name -> position of the copy
    cnt,            \* truncate: cnt
    tpc,            \* truncate: position of the for loop (0 once returned)
    ib_shape,       \* index_or_broadcast: the argument shape
    ib_args,        \* index_or_broadcast: the arguments *args
    ib_out,         \* index_or_broadcast: the returned list
    ib_prev         \* the call before the last one: [shape, args, out, axis]

walkVars  == <<pc, status, err, env, envWrites, inputs, module_attrs,
               compute_stmts, outs, shapeLog, visited>>
callVars  == <<cg, alloc_results, module_stuff, frames, mem, ncalls, held>>
rmVars    == <<erased, rm_i>>
truncVars == <<k, new_graph, tenv, cnt, tpc>>
ibVars    == <<ib_shape, ib_args, ib_out, ib_prev>>
vars      == <<graph, walkVars, callVars, rmVars, truncVars, ibVars>>

---------------------------------------------------------------------------
(* Bounds of the model.                                                    *)

\* placeholders of a traced graph
MaxInputs == 2
\* nodes between the placeholders and the output node
MaxBody == 2
\* kernel runs of one compiled callable
MaxCalls == 2
\* positional inputs, and entries of out_tensors, a caller passes to f
MaxCallArgs == 2
\* rank of the shapes and number of indices given to index_or_broadcast
MaxRank == 3
\* largest extent of an axis and largest index value
MaxExtent == 2

---------------------------------------------------------------------------
(* Graph nodes (torch.fx.Node as the file reads it).                       *)

NoMeta == [has |-> FALSE, shape |-> <<>>, dtype |-> "none"]

TensorMeta(shape, dtype) == [has |-> TRUE, shape |-> shape, dtype |-> dtype]

\* an operand: a Node reference, a literal, or a tuple / list of Node references
NodeArg(j)   == [tag |-> "node", ids |-> <<j>>]
LitArg       == [tag |-> "lit", ids |-> <<>>]
TupleArg(js) == [tag |-> "tuple", ids |-> js]
ListArg(js)  == [tag |-> "list", ids |-> js]

MkNode(op, target, args, kwargs, meta) ==
    [op |-> op, target |-> target, args |-> args, kwargs |-> kwargs, meta |-> meta]

Range(s) == {s[i] : i \in 1..Len(s)}

\* the Node names an operand structure refers to (map_aggregate's leaves)
ArgRefs(args) == UNION {Range(args[i].ids) : i \in 1..Len(args)}

\* node.users of the node named j, in the graph g without the names in gone
Users(g, gone, j) ==
    {i \in (1..Len(g)) \ gone : j \in ArgRefs(g[i].args)}

---------------------------------------------------------------------------
(* The traced graphs the model starts from.  symbolic_trace emits the      *)
(* placeholders first, then the body in definition order (every operand    *)
(* is an earlier node), then one output node.                              *)

F32Vec == TensorMeta(<<2>>, "float32")
F32Scalar == TensorMeta(<<>>, "float32")

PlaceholderMetas == {F32Scalar, F32Vec, TensorMeta(<<2>>, "bool")}
AttrMetas == {TensorMeta(<<>>, "float64"), TensorMeta(<<2>>, "int64")}

Pairs(n) == {js \in (1..n) \X (1..n) : js[1] <= js[2]}

\* the body nodes that may follow n earlier nodes: captured state, a method
\* call, and function calls (element-wise, reduction, indexing, attribute
\* access, a scalar query, an operator over a tuple of tensors)
BodyNodes(n) ==
       {MkNode("get_attr", "attr", <<>>, FALSE, m) : m \in AttrMetas}
  \cup {MkNode("call_method", "size", <<NodeArg(j)>>, FALSE, NoMeta) : j \in 1..n}
  \cup {MkNode("call_function", "mul", <<NodeArg(js[1]), NodeArg(js[2])>>, FALSE, m) :
            js \in Pairs(n), m \in {F32Vec, TensorMeta(<<2>>, "bool")}}
  \cup {MkNode("call_function", "mul", <<NodeArg(js[1]), NodeArg(js[2])>>, TRUE, F32Vec) :
            js \in Pairs(n)}
  \cup {MkNode("call_function", "mul", <<NodeArg(j), LitArg>>, FALSE, F32Vec) : j \in 1..n}
  \cup {MkNode("call_function", "dot", <<NodeArg(js[1]), NodeArg(js[2])>>, FALSE, F32Scalar) :
            js \in Pairs(n)}
  \cup {MkNode("call_function", "getattr", <<NodeArg(j), LitArg>>, FALSE, NoMeta) : j \in 1..n}
  \cup {MkNode("call_function", "getitem", <<NodeArg(j), LitArg>>, FALSE, m) :
            j \in 1..n, m \in {NoMeta, F32Vec}}
  \cup {MkNode("call_function", "numel", <<NodeArg(j)>>, FALSE, NoMeta) : j \in 1..n}
  \cup {MkNode("call_function", "cat", <<TupleArg(<<js[1], js[2]>>)>>, FALSE, F32Vec) :
            js \in Pairs(n)}

\* what the traced function returns: one value, a tuple, a list, a constant
OutputNodes(n) ==
       {MkNode("output", "output", <<NodeArg(j)>>, FALSE, NoMeta) : j \in 1..n}
  \cup {MkNode("output", "output", <<TupleArg(<<>>)>>, FALSE, NoMeta)}
  \cup {MkNode("output", "output", <<TupleArg(<<js[1], js[2]>>)>>, FALSE, NoMeta) :
            js \in Pairs(n)}
  \cup {MkNode("output", "output", <<ListArg(<<j>>)>>, FALSE, NoMeta) : j \in {n} \ {0}}
  \cup {MkNode("output", "output", <<LitArg>>, FALSE, NoMeta)}

\* the well-typed body nodes and outputs of the graphs whose callable is invoked
CallBodyNodes(n) ==
       {MkNode("get_attr", "attr", <<>>, FALSE, F32Vec)}
  \cup {MkNode("call_method", "size", <<NodeArg(j)>>, FALSE, NoMeta) : j \in {n} \ {0}}
  \cup {MkNode("call_function", "mul", <<NodeArg(j), NodeArg(n)>>, FALSE, F32Vec) : j \in 1..n}

\* the names among 1..Len(g) that are computed results (call_function nodes)
Computed(g) == {j \in 1..Len(g) : g[j].op = "call_function"}

\* the outputs of those graphs: one computed result, or a tuple of distinct ones
CallOutputNodes(g) ==
       {MkNode("output", "output", <<NodeArg(j)>>, FALSE, NoMeta) : j \in Computed(g)}
  \cup {MkNode("output", "output", <<TupleArg(<<>>)>>, FALSE, NoMeta)}
  \cup {MkNode("output", "output", <<TupleArg(<<j>>)>>, FALSE, NoMeta) : j \in Computed(g)}
  \cup {MkNode("output", "output", <<TupleArg(<<js[1], js[2]>>)>>, FALSE, NoMeta) :
            js \in {x \in Computed(g) \X Computed(g) : x[1] # x[2]}}

\* the body nodes and outputs of the graphs given to truncate and remove_args
PlainBodyNodes(n) ==
       {MkNode("get_attr", "attr", <<>>, FALSE, F32Vec)}
  \cup {MkNode("call_function", "sin", <<NodeArg(j)>>, FALSE, F32Vec) : j \in 1..n}
  \cup {MkNode("call_function", "mul", <<NodeArg(js[1]), NodeArg(js[2])>>, FALSE, F32Vec) :
            js \in {x \in Pairs(n) : x[1] # x[2]}}

PlainOutputNodes(n) ==
       {MkNode("output", "output", <<NodeArg(j)>>, FALSE, NoMeta) : j \in 1..n}
  \cup {MkNode("output", "output", <<TupleArg(<<js[1], js[2]>>)>>, FALSE, NoMeta) :
            js \in {x \in Pairs(n) : x[1] # x[2]}}

\* the families of traced graphs: every node kind ("lower"), well-typed graphs
\* whose callable is invoked ("call"), plain dataflow ("plain")
PlaceholderFamily(fam) == IF fam = "lower" THEN PlaceholderMetas ELSE {F32Vec}

BodyFamily(fam, g) ==
    IF fam = "lower" THEN BodyNodes(Len(g))
    ELSE IF fam = "call" THEN CallBodyNodes(Len(g))
    ELSE PlainBodyNodes(Len(g))

OutputFamily(fam, g) ==
    IF fam = "lower" THEN OutputNodes(Len(g))
    ELSE IF fam = "call" THEN CallOutputNodes(g)
    ELSE PlainOutputNodes(Len(g))

\* the placeholders symbolic_trace emits first
PlaceholderNodes(metas) == {MkNode("placeholder", "x", <<>>, FALSE, m) : m \in metas}

---------------------------------------------------------------------------
(* Helpers of the lowering pass.                                           *)

\* te.ExprHandle.int(x)
IntExpr(x) == [kind |-> "IntImm", v |-> x]

\* to_expr(x) for an int x (a float gives a FloatImm, anything else raises)
to_expr(x) == IntExpr(x)

get_te_shapes(shape) == [i \in 1..Len(shape) |-> IntExpr(shape[i])]

\* get_nnc_type(dtype); "nyi" stands for the RuntimeError it raises
get_nnc_type(dtype) ==
    IF dtype = "float32" THEN "Float"
    ELSE IF dtype = "int64" THEN "Long"
    ELSE IF dtype = "float64" THEN "Double"
    ELSE "nyi"

process_shape(x) == IF Len(x) = 0 THEN <<1>> ELSE x

\* the operators with a rule in lowering_functions
lowering_functions == {"ones_like", "dot", "mv"}

\* a symbolic handle: te.Placeholder(...).data() or the buffer of a lowering
Unbound == [bound |-> FALSE, kind |-> "none", name |-> 0, dims |-> <<>>]
Handle(kind, name, dims) == [bound |-> TRUE, kind |-> kind, name |-> name, dims |-> dims]

\* lookup_env(l): the names it reads from env, and whether each is there
lookup_ok(e, args) == \A j \in ArgRefs(args) : e[j].bound

\* lookup_env(l): map_aggregate over the operand structure
lookup_env(e, args) ==
    [i \in 1..Len(args) |-> [j \in 1..Len(args[i].ids) |-> e[args[i].ids[j]]]]

\* lower_function's inp_shapes: (process_shape(shape), dtype) per Node operand
\* that carries tensor_meta, nothing for the others
inp_shapes(g, args) ==
    [i \in 1..Len(args) |->
        [j \in 1..Len(args[i].ids) |->
            LET m == g[args[i].ids[j]].meta
            IN  IF m.has THEN [some |-> TRUE, shape |-> process_shape(m.shape), dtype |-> m.dtype]
                ELSE [some |-> FALSE, shape |-> <<>>, dtype |-> "none"]]]

\* the shape lower_function hands to the lowering rule or to te.lower as the
\* output shape of the node
lower_out_shape(node) == process_shape(node.meta.shape)

\* the exception lower_function raises for the node ("" when it returns)
lower_error(g, node) ==
    IF node.target \in lowering_functions
    THEN IF node.target = "ones_like" THEN ""
         ELSE LET first == inp_shapes(g, node.args)[1]
              IN  IF Len(first) = 0 \/ ~first[1].some THEN "TypeError"
                  ELSE IF get_nnc_type(first[1].dtype) = "nyi" THEN "nyi"
                  ELSE ""
    ELSE IF get_nnc_type(node.meta.dtype) = "nyi" THEN "nyi" ELSE ""

\* the shapes lower_function passes on for the node, each with its site
lower_shapes(g, node) ==
    {[site |-> "out", shape |-> lower_out_shape(node)]}
    \cup (IF node.target \in lowering_functions
          THEN LET shp == inp_shapes(g, node.args)
               IN  UNION {{[site |-> "operand", shape |-> shp[i][j].shape] :
                              j \in {x \in 1..Len(shp[i]) : shp[i][x].some}} :
                          i \in 1..Len(shp)}
          ELSE {})

\* the statements lower_function returns for the node (dot_lower returns two)
lower_stmts(node, name) ==
    IF node.target = "dot" THEN <<[stmt |-> "mul", of |-> name], [stmt |-> "sum", of |-> name]>>
    ELSE <<[stmt |-> node.target, of |-> name]>>

---------------------------------------------------------------------------
(* nnc_compile: the walk over fx_model.graph.nodes, one action per branch  *)
(* of the loop body.                                                       *)

Walking == status = "walking" /\ pc <= Len(graph)

NoOuts == [set |-> FALSE, te |-> <<>>, metas |-> <<>>]

\* the loop body raised e at the node named pc: nnc_compile is left at once
Raise(e) ==
    /\ status' = "failed"
    /\ err' = e
    /\ visited' = Append(visited, "raised")
    /\ UNCHANGED <<pc, env, envWrites, inputs, compute_stmts, outs, shapeLog>>

\* env[node.name] = h
Bind(name, h) ==
    /\ env' = [env EXCEPT ![name] = h]
    /\ envWrites' = [envWrites EXCEPT ![name] = @ + 1]

\* the loop goes on to the next node
Advance(how) ==
    /\ pc' = pc + 1
    /\ visited' = Append(visited, how)
    /\ UNCHANGED <<status, err>>

StepPlaceholder ==
    /\ Walking
    /\ graph[pc].op = "placeholder"
    /\ LET node == graph[pc]
           shapes == get_te_shapes(node.meta.shape)
       IN  IF get_nnc_type(node.meta.dtype) = "nyi"
           THEN Raise("nyi") /\ UNCHANGED module_attrs
           ELSE /\ Bind(pc, Handle("placeholder", pc, shapes))
                /\ inputs' = Append(inputs, Handle("placeholder", pc, shapes))
                /\ shapeLog' = shapeLog \cup {[site |-> "placeholder", shape |-> node.meta.shape]}
                /\ Advance("bound")
                /\ UNCHANGED <<module_attrs, compute_stmts, outs>>
    /\ UNCHANGED <<graph, callVars, rmVars, truncVars, ibVars>>

StepCallFunction ==
    /\ Walking
    /\ graph[pc].op = "call_function"
    /\ LET node == graph[pc]
       IN  IF node.meta.has
           THEN IF node.kwargs THEN Raise("kwargs nyi")
                ELSE IF ~lookup_ok(env, node.args) THEN Raise("KeyError")
                ELSE IF lower_error(graph, node) # "" THEN Raise(lower_error(graph, node))
                ELSE /\ compute_stmts' = compute_stmts \o lower_stmts(node, pc)
                     /\ Bind(pc, Handle("buf", pc, get_te_shapes(lower_out_shape(node))))
                     /\ shapeLog' = shapeLog \cup lower_shapes(graph, node)
                     /\ Advance("bound")
                     /\ UNCHANGED <<inputs, outs>>
           ELSE IF node.target = "getattr" \/ node.target = "getitem"
           THEN \* continue
                /\ Advance("skipped")
                /\ UNCHANGED <<env, envWrites, inputs, compute_stmts, outs, shapeLog>>
           ELSE \* neither branch of the if / elif is taken: the loop body ends
                /\ Advance("passed")
                /\ UNCHANGED <<env, envWrites, inputs, compute_stmts, outs, shapeLog>>
    /\ UNCHANGED <<graph, module_attrs, callVars, rmVars, truncVars, ibVars>>

\* the output node's args as a flat tuple of results
output_args(node) ==
    IF node.args[1].tag = "tuple"
    THEN [i \in 1..Len(node.args[1].ids) |-> NodeArg(node.args[1].ids[i])]
    ELSE node.args

StepOutput ==
    /\ Walking
    /\ graph[pc].op = "output"
    /\ LET args == output_args(graph[pc])
       IN  IF ~lookup_ok(env, args) THEN Raise("KeyError")
           ELSE IF \E i \in 1..Len(args) : args[i].tag # "node" THEN Raise("AttributeError")
           ELSE /\ outs' = [set |-> TRUE,
                            te |-> [i \in 1..Len(args) |-> env[args[i].ids[1]]],
                            metas |-> [i \in 1..Len(args) |->
                                          [shape |-> graph[args[i].ids[1]].meta.shape,
                                           dtype |-> graph[args[i].ids[1]].meta.dtype]]]
                /\ Advance("output")
                /\ UNCHANGED <<env, envWrites, inputs, compute_stmts, shapeLog>>
    /\ UNCHANGED <<graph, module_attrs, callVars, rmVars, truncVars, ibVars>>

StepGetAttr ==
    /\ Walking
    /\ graph[pc].op = "get_attr"
    /\ module_attrs' = Append(module_attrs, pc)
    /\ LET node == graph[pc]
           shapes == get_te_shapes(process_shape(node.meta.shape))
       IN  IF get_nnc_type(node.meta.dtype) = "nyi" THEN Raise("nyi")
           ELSE /\ Bind(pc, Handle("placeholder", pc, shapes))
                /\ shapeLog' = shapeLog \cup
                       {[site |-> "get_attr", shape |-> process_shape(node.meta.shape)]}
                /\ Advance("bound")
                /\ UNCHANGED <<inputs, compute_stmts, outs>>
    /\ UNCHANGED <<graph, callVars, rmVars, truncVars, ibVars>>

StepOther ==
    /\ Walking
    /\ graph[pc].op \notin {"placeholder", "call_function", "output", "get_attr"}
    /\ Raise("not yet implemented")
    /\ UNCHANGED <<graph, module_attrs, callVars, rmVars, truncVars, ibVars>>

---------------------------------------------------------------------------
(* nnc_compile after the loop: code generation, the default outputs, the   *)
(* captured state, and the callable f.                                     *)

Tensor(pool, n) == [pool |-> pool, n |-> n]

Threads == {"t1", "t2"}

\* the tensors the callers own: positional inputs and output buffers
CallerTensors ==
    {Tensor("in", i) : i \in 1..MaxCallArgs}
    \cup {Tensor(t, i) : t \in Threads, i \in 1..MaxCallArgs}

\* the list te.construct_codegen gets: [te.BufferArg(x) for x in ...]
buffer_args(attrs, ins, os) == attrs \o ins \o os

NoRet == [kind |-> "none", items |-> <<>>]
IdleFrame == [pc |-> "idle", inps |-> <<>>, out_tensors |-> [none |-> TRUE, list |-> <<>>],
              results |-> <<>>, args |-> <<>>, wrote |-> {}, run |-> 0, ret |-> NoRet]

Finalize ==
    /\ status = "walking"
    /\ pc = Len(graph) + 1
    /\ outs.set
    /\ status' = "compiled"
    /\ cg' = buffer_args([i \in 1..Len(module_attrs) |-> env[module_attrs[i]]], inputs, outs.te)
    /\ alloc_results' = [i \in 1..Len(outs.metas) |-> Tensor("alloc", i)]
    /\ shapeLog' = shapeLog \cup
           {[site |-> "alloc", shape |-> outs.metas[i].shape] : i \in 1..Len(outs.metas)}
    /\ module_stuff' = [i \in 1..Len(module_attrs) |-> Tensor("attr", module_attrs[i])]
    /\ mem' = [x \in CallerTensors
                     \cup {Tensor("alloc", i) : i \in 1..Len(outs.metas)}
                     \cup {Tensor("attr", module_attrs[i]) : i \in 1..Len(module_attrs)} |-> 0]
    \* nnc_compile returns f: of its locals only the cells f closes over live on
    /\ graph' = <<>>
    /\ pc' = 0
    /\ env' = <<>>
    /\ envWrites' = <<>>
    /\ compute_stmts' = <<>>
    /\ visited' = <<>>
    \* (inputs, module_attrs and outs, which the BufferArg list was built from,
    \* are kept for reference)
    /\ UNCHANGED <<err, inputs, module_attrs, outs, frames, ncalls, held,
                   rmVars, truncVars, ibVars>>

\* call_args with the inputs put before the captured state
call_args_inputs_first(stuff, inps, results) == inps \o stuff \o results

\* f's argument list for the kernel: module_stuff + list(inps) + results
call_args(stuff, inps, results) == stuff \o inps \o results

\* choose_results ignoring out_tensors
choose_results_default(out_tensors) == alloc_results

\* f's choice of the tensors the kernel writes to
choose_results(out_tensors) ==
    IF out_tensors.none THEN alloc_results ELSE out_tensors.list

\* the positions of the kernel's output buffers in its BufferArg list
OutputPositions == {p \in 1..Len(cg) : p > Len(cg) - Len(alloc_results)}

\* return_value without the single-tensor case
return_value_list(out_tensors, results) ==
    IF out_tensors.none THEN [kind |-> "list", items |-> results]
    ELSE [kind |-> "None", items |-> <<>>]

\* f's return value
return_value(out_tensors, results) ==
    IF out_tensors.none
    THEN IF Len(results) = 1 THEN [kind |-> "tensor", items |-> <<results[1]>>]
         ELSE [kind |-> "list", items |-> results]
    ELSE [kind |-> "None", items |-> <<>>]

\* f(*inps, out_tensors=...) up to and including cg.call: thread t passes n
\* positional inputs.  A call whose argument list has not the length of the
\* BufferArg list either raises in the kernel or runs it on the output
\* positions that exist.
Invoke(t, n, out_tensors, raises) ==
    /\ status = "compiled"
    /\ frames[t].pc # "called"
    /\ ncalls < MaxCalls
    /\ LET inps == [i \in 1..n |-> Tensor("in", i)]
           results == choose_results(out_tensors)
           args == call_args(module_stuff, inps, results)
           wrote == {args[p] : p \in OutputPositions \cap (1..Len(args))}
       IN  /\ raises => Len(args) # Len(cg)
           /\ ncalls' = ncalls + 1
           /\ mem' = IF raises THEN mem
                     ELSE [x \in DOMAIN mem |-> IF x \in wrote THEN ncalls + 1 ELSE mem[x]]
           /\ frames' = [frames EXCEPT ![t] =
                  [pc |-> IF raises THEN "raised" ELSE "called",
                   inps |-> inps, out_tensors |-> out_tensors, results |-> results,
                   args |-> args, wrote |-> IF raises THEN {} ELSE wrote,
                   run |-> ncalls + 1, ret |-> NoRet]]
    /\ UNCHANGED <<graph, walkVars, cg, alloc_results, module_stuff, held,
                   rmVars, truncVars, ibVars>>

\* the rest of f: the return
Return(t) ==
    /\ frames[t].pc = "called"
    /\ LET ret == return_value(frames[t].out_tensors, frames[t].results)
       IN  /\ frames' = [frames EXCEPT ![t].pc = "returned", ![t].ret = ret]
           /\ held' = held \cup Range(ret.items)
    /\ UNCHANGED <<graph, walkVars, cg, alloc_results, module_stuff, mem, ncalls,
                   rmVars, truncVars, ibVars>>

\* the out_tensors a caller thread may pass: nothing, a list of the output
\* buffers of a thread in us with a length in lens, or the default tensors an
\* earlier call returned
OutChoices(us, lens) ==
       {[none |-> TRUE, list |-> <<>>]}
  \cup {[none |-> FALSE, list |-> [i \in 1..m |-> Tensor(u, i)]] : u \in us, m \in lens}
  \cup {[none |-> FALSE, list |-> alloc_results] : x \in {1} \cap
            {IF Range(alloc_results) \subseteq held /\ Len(alloc_results) > 0 THEN 1 ELSE 0}}

---------------------------------------------------------------------------
(* fx.symbolic_trace and ShapeProp: the traced graph is built node by node *)
(* before nnc_compile, remove_args or truncate works on it.                *)

Tracing == status = "tracing"

PlaceholderCount == Cardinality({i \in 1..Len(graph) : graph[i].op = "placeholder"})

\* the tracer adds a placeholder (only while every node is a placeholder)
TracePlaceholder(fam) ==
    /\ Tracing
    /\ Len(graph) < MaxInputs
    /\ PlaceholderCount = Len(graph)
    /\ \E nd \in PlaceholderNodes(PlaceholderFamily(fam)) : graph' = Append(graph, nd)
    /\ UNCHANGED <<walkVars, callVars, rmVars, truncVars, ibVars>>

\* the tracer adds a body node
TraceBody(fam) ==
    /\ Tracing
    /\ Len(graph) - PlaceholderCount < MaxBody
    /\ \E nd \in BodyFamily(fam, graph) : graph' = Append(graph, nd)
    /\ UNCHANGED <<walkVars, callVars, rmVars, truncVars, ibVars>>

\* the tracer ends the graph with its output node
TraceOutput(fam) ==
    /\ Tracing
    /\ \E nd \in OutputFamily(fam, graph) : graph' = Append(graph, nd)
    /\ status' = "traced"
    /\ UNCHANGED <<pc, err, env, envWrites, inputs, module_attrs, compute_stmts, outs,
                   shapeLog, visited, callVars, rmVars, truncVars, ibVars>>

\* nnc_compile up to its loop: env = {}, outs = None, inputs = [], ...
BeginCompile ==
    /\ status = "traced"
    /\ status' = "walking"
    /\ pc' = 1
    /\ env' = [i \in 1..Len(graph) |-> Unbound]
    /\ envWrites' = [i \in 1..Len(graph) |-> 0]
    /\ inputs' = <<>>
    /\ module_attrs' = <<>>
    /\ compute_stmts' = <<>>
    /\ outs' = NoOuts
    /\ UNCHANGED <<graph, err, shapeLog, visited, callVars, rmVars, truncVars, ibVars>>

---------------------------------------------------------------------------
(* Specifications of nnc_compile.                                          *)

WalkIdle ==
    /\ pc = 0
    /\ err = ""
    /\ env = <<>>
    /\ envWrites = <<>>
    /\ inputs = <<>>
    /\ module_attrs = <<>>
    /\ compute_stmts = <<>>
    /\ outs = NoOuts
    /\ shapeLog = {}
    /\ visited = <<>>

CallIdle ==
    /\ cg = <<>>
    /\ alloc_results = <<>>
    /\ module_stuff = <<>>
    /\ frames = [t \in Threads |-> IdleFrame]
    /\ mem = <<>>
    /\ ncalls = 0
    /\ held = CallerTensors

RemoveIdle == erased = {} /\ rm_i = 0

TruncateIdle == k = 0 /\ new_graph = <<>> /\ tenv = <<>> /\ cnt = 0 /\ tpc = 0

IndexIdle ==
    /\ ib_shape = <<>>
    /\ ib_args = <<>>
    /\ ib_out = <<>>
    /\ ib_prev = [called |-> FALSE, shape |-> <<>>, args |-> <<>>, out |-> <<>>, axis |-> 0]

Init ==
    /\ graph = <<>>
    /\ status = "tracing"
    /\ WalkIdle /\ CallIdle /\ RemoveIdle /\ TruncateIdle /\ IndexIdle

Walk ==
    \/ BeginCompile
    \/ StepPlaceholder
    \/ StepCallFunction
    \/ StepOutput
    \/ StepGetAttr
    \/ StepOther
    \/ Finalize

\* nnc_compile on every kind of traced graph
NextLower ==
    \/ TracePlaceholder("lower")
    \/ TraceBody("lower")
    \/ TraceOutput("lower")
    \/ Walk

SpecLower == Init /\ [][NextLower]_vars

\* nnc_compile, then one caller invoking the callable with any arguments
Next ==
    \/ TracePlaceholder("call")
    \/ TraceBody("call")
    \/ TraceOutput("call")
    \/ Walk
    \/ \E n \in 0..MaxCallArgs, o \in OutChoices({"t1"}, 0..MaxCallArgs), r \in BOOLEAN : Invoke("t1", n, o, r)
    \/ Return("t1")

Spec == Init /\ [][Next]_vars

\* nnc_compile, then two callers invoking the callable with as many inputs
\* as it has placeholders
NextShared ==
    \/ TracePlaceholder("call")
    \/ TraceBody("call")
    \/ TraceOutput("call")
    \/ Walk
    \/ \E t \in Threads, o \in OutChoices(Threads, {Len(alloc_results)}) :
           Invoke(t, Len(cg) - Len(module_stuff) - Len(alloc_results), o, FALSE)
    \/ \E t \in Threads : Return(t)

SpecShared == Init /\ [][NextShared]_vars

---------------------------------------------------------------------------
(* remove_args: one pass over the traced graph in definition order.        *)

\* should_erase without the test for the output node
should_erase_unused(g, gone, i) == Cardinality(Users(g, gone, i)) = 0

\* the condition under which the loop erases the node named i
should_erase(g, gone, i) == Cardinality(Users(g, gone, i)) = 0 /\ g[i].op # "output"

BeginRemove ==
    /\ status = "traced"
    /\ status' = "removing"
    /\ rm_i' = 1
    /\ erased' = {}
    /\ UNCHANGED <<graph, pc, err, env, envWrites, inputs, module_attrs, compute_stmts,
                   outs, shapeLog, visited, callVars, truncVars, ibVars>>

\* one iteration of the for loop
RemoveStep ==
    /\ status = "removing"
    /\ rm_i <= Len(graph)
    /\ erased' = IF should_erase(graph, erased, rm_i) THEN erased \cup {rm_i} ELSE erased
    /\ rm_i' = rm_i + 1
    /\ UNCHANGED <<graph, walkVars, callVars, truncVars, ibVars>>

\* fx_model.recompile(); return fx_model
RemoveReturn ==
    /\ status = "removing"
    /\ rm_i = Len(graph) + 1
    /\ status' = "removed"
    /\ UNCHANGED <<graph, pc, err, env, envWrites, inputs, module_attrs, compute_stmts,
                   outs, shapeLog, visited, callVars, rmVars, truncVars, ibVars>>

NextRemove ==
    \/ TracePlaceholder("plain")
    \/ TraceBody("plain")
    \/ TraceOutput("plain")
    \/ BeginRemove
    \/ RemoveStep
    \/ RemoveReturn

SpecRemove == Init /\ [][NextRemove]_vars

---------------------------------------------------------------------------
(* truncate(model, k).                                                     *)

\* new_graph.node_copy(node, lambda x: env[x.name]): the copy of the node with
\* every operand reference looked up in e
node_copy(node, e) ==
    [node EXCEPT !.args = [i \in 1..Len(node.args) |->
        [node.args[i] EXCEPT !.ids = [j \in 1..Len(node.args[i].ids) |-> e[node.args[i].ids[j]]]]]]

\* new_graph.output(env[node.name]): the output node appended at the break
graph_output(e, name) == MkNode("output", "output", <<NodeArg(e[name])>>, FALSE, NoMeta)

\* reached comparing before cnt is incremented
reached_late(c, kk) == c - 1 = kk

\* whether the loop body's test cnt == k holds
reached(c, kk) == c = kk

BeginTruncate ==
    /\ status = "traced"
    /\ \E kk \in 0..Len(graph) + 1 : k' = kk
    /\ status' = "truncating"
    /\ new_graph' = <<>>
    /\ tenv' = [i \in 1..Len(graph) |-> 0]
    /\ cnt' = 0
    /\ tpc' = 1
    /\ UNCHANGED <<graph, pc, err, env, envWrites, inputs, module_attrs, compute_stmts,
                   outs, shapeLog, visited, callVars, rmVars, ibVars>>

\* one iteration of the for loop (with the break)
TruncateStep ==
    /\ status = "truncating"
    /\ tpc <= Len(graph)
    /\ LET new_node == node_copy(graph[tpc], tenv)
           copied == Append(new_graph, new_node)
           e == [tenv EXCEPT ![tpc] = Len(copied)]
       IN  /\ tenv' = e
           /\ cnt' = cnt + 1
           /\ IF reached(cnt + 1, k)
              THEN /\ new_graph' = Append(copied, graph_output(e, tpc))
                   /\ status' = "truncated"
                   /\ tpc' = tpc
              ELSE /\ new_graph' = copied
                   /\ tpc' = tpc + 1
                   /\ UNCHANGED status
    /\ UNCHANGED <<graph, pc, err, env, envWrites, inputs, module_attrs, compute_stmts,
                   outs, shapeLog, visited, callVars, rmVars, k, ibVars>>

\* the loop ended without the break: return fx.GraphModule(model, new_graph)
TruncateReturn ==
    /\ status = "truncating"
    /\ tpc = Len(graph) + 1
    /\ status' = "truncated"
    /\ UNCHANGED <<graph, pc, err, env, envWrites, inputs, module_attrs, compute_stmts,
                   outs, shapeLog, visited, callVars, rmVars, truncVars, ibVars>>

NextTruncate ==
    \/ TracePlaceholder("plain")
    \/ TraceBody("plain")
    \/ TraceOutput("plain")
    \/ BeginTruncate
    \/ TruncateStep
    \/ TruncateReturn

SpecTruncate == Init /\ [][NextTruncate]_vars

---------------------------------------------------------------------------
(* index_or_broadcast(shape, *args).                                       *)

\* an index expression of the loop nest, with the value it has
IndexExpr(x) == [kind |-> "Var", v |-> x]

\* axis_index treating every extent up to 1 as broadcast
axis_index_upto(extent, arg) == IF extent <= 1 THEN to_expr(0) ELSE arg

\* the loop body's choice for one axis whose extent is in the shape
axis_index(extent, arg) == IF extent = 1 THEN to_expr(0) ELSE arg

RECURSIVE index_loop(_, _, _, _)
\* the for loop from position idx on (idx counts from 1 here), out so far
index_loop(shape, args, idx, out) ==
    IF idx > Len(args) THEN out
    ELSE IF idx - 1 >= Len(shape) THEN index_loop(shape, args, idx + 1, out)
    ELSE index_loop(shape, args, idx + 1, Append(out, axis_index(shape[idx], args[idx])))

index_or_broadcast(shape, args) == index_loop(shape, args, 1, <<>>)

RECURSIVE Tuples(_, _)
\* the sequences over S of length at most n
Tuples(S, n) ==
    IF n = 0 THEN {<<>>}
    ELSE LET shorter == Tuples(S, n - 1)
         IN  shorter \cup {Append(t, x) : t \in {u \in shorter : Len(u) = n - 1}, x \in S}

InitIndex ==
    /\ graph = <<>>
    /\ status = "index"
    /\ WalkIdle /\ CallIdle /\ RemoveIdle /\ TruncateIdle
    /\ ib_shape \in Tuples(0..MaxExtent, MaxRank)
    /\ ib_args \in Tuples({IndexExpr(x) : x \in 0..MaxExtent}, MaxRank)
    /\ ib_out = <<>>
    /\ ib_prev = [called |-> FALSE, shape |-> <<>>, args |-> <<>>, out |-> <<>>, axis |-> 0]

\* a lowering rule's element function calls index_or_broadcast(shape, *idxs)
CallIndex ==
    /\ status = "index"
    /\ status' = "indexed"
    /\ ib_out' = index_or_broadcast(ib_shape, ib_args)
    /\ UNCHANGED <<graph, pc, err, env, envWrites, inputs, module_attrs, compute_stmts,
                   outs, shapeLog, visited, callVars, rmVars, truncVars,
                   ib_shape, ib_args, ib_prev>>

\* the element function is called again with another output index on one axis
CallIndexAgain ==
    /\ status = "indexed"
    /\ ~ib_prev.called
    /\ \E axis \in 1..Len(ib_args), x \in 0..MaxExtent :
           /\ ib_args[axis] # IndexExpr(x)
           /\ ib_args' = [ib_args EXCEPT ![axis] = IndexExpr(x)]
           /\ ib_out' = index_or_broadcast(ib_shape, [ib_args EXCEPT ![axis] = IndexExpr(x)])
           /\ ib_prev' = [called |-> TRUE, shape |-> ib_shape, args |-> ib_args,
                          out |-> ib_out, axis |-> axis]
    /\ UNCHANGED <<graph, walkVars, callVars, rmVars, truncVars, ib_shape>>

NextIndex == CallIndex \/ CallIndexAgain

SpecIndex == InitIndex /\ [][NextIndex]_vars

---------------------------------------------------------------------------
(* Properties of the callable f (specifications Spec and SpecShared).      *)

NumAttrs == Len(module_attrs)
NumInputs == Len(inputs)
NumOutputs == Len(outs.te)

Increasing(q) == \A i \in 1..Len(q), j \in 1..Len(q) : i < j => q[i] < q[j]

\* a call that passes one input per placeholder and, when it passes
\* out_tensors, one tensor per graph output
WellFormed(f) ==
    /\ Len(f.inps) = NumInputs
    /\ f.out_tensors.none \/ Len(f.out_tensors.list) = NumOutputs

\* the argument list of the activation f matches the BufferArg list position
\* by position: captured state, then inputs, then outputs
ArgsMatch(f) ==
    /\ Len(f.args) = Len(cg)
    /\ Len(f.inps) = NumInputs
    /\ Len(f.results) = NumOutputs
    /\ Len(cg) = NumAttrs + NumInputs + NumOutputs
    /\ \A p \in 1..NumAttrs :
           f.args[p] = Tensor("attr", module_attrs[p]) /\ cg[p].name = module_attrs[p]
    /\ \A i \in 1..NumInputs :
           f.args[NumAttrs + i] = f.inps[i] /\ cg[NumAttrs + i] = inputs[i]
    /\ \A i \in 1..NumOutputs :
           /\ f.args[NumAttrs + NumInputs + i] = f.results[i]
           /\ cg[NumAttrs + NumInputs + i] = outs.te[i]

\* the order fixed during the walk: captured state and placeholders are
\* recorded in graph order
WalkOrder ==
    status = "walking" =>
        /\ Increasing(module_attrs)
        /\ Range(module_attrs) = {n \in 1..(pc - 1) : graph[n].op = "get_attr"}
        /\ Increasing([i \in 1..Len(inputs) |-> inputs[i].name])
        /\ {inputs[i].name : i \in 1..Len(inputs)} =
               {n \in 1..(pc - 1) : graph[n].op = "placeholder"}

C5_ReturnMatchesOutputs ==
    /\ status = "walking" /\ outs.set =>
           /\ Len(outs.te) = Len(output_args(graph[Len(graph)]))
           /\ Len(outs.metas) = Len(outs.te)
    /\ status = "compiled" =>
           /\ Len(alloc_results) = NumOutputs
           /\ \A t \in Threads :
                  LET f == frames[t]
                  IN  f.pc \in {"called", "returned"} =>
                          IF f.out_tensors.none
                          THEN /\ f.results = alloc_results
                               /\ WellFormed(f) => f.wrote = Range(alloc_results)
                               /\ f.pc = "returned" =>
                                      /\ Len(f.ret.items) = NumOutputs
                                      /\ f.ret.items = alloc_results
                                      /\ f.ret.kind = IF NumOutputs = 1 THEN "tensor" ELSE "list"
                          ELSE /\ f.results = f.out_tensors.list
                               /\ WellFormed(f) => f.wrote = Range(f.out_tensors.list)
                               /\ f.pc = "returned" => f.ret.kind = "None"

\* a call without out_tensors on a one-output graph has returned
C5_Witness ==
    /\ status = "compiled"
    /\ NumOutputs = 1
    /\ frames["t1"].pc = "returned"
    /\ frames["t1"].out_tensors.none
    /\ frames["t1"].ret.kind = "tensor"

Default(f) == f.pc \in {"called", "returned"} /\ f.out_tensors.none

OwnOutputs(f) ==
    /\ f.pc \in {"called", "returned"}
    /\ ~f.out_tensors.none
    /\ Range(f.out_tensors.list) \cap Range(alloc_results) = {}

\* C6: every call without out_tensors writes to and returns the same
\* pre-allocated tensors, so what such a call returned (or is about to return)
\* holds the values of the latest such kernel run; calls that supply their own
\* tensors, distinct from the defaults and from each other's, write neither
\* the defaults nor each other's tensors.
C6_SharedDefaults ==
    status = "compiled" =>
        \A t \in Threads :
            LET f == frames[t]
            IN  /\ Default(f) =>
                       /\ f.results = alloc_results
                       /\ f.wrote = Range(alloc_results)
                       /\ \A x \in Range(alloc_results) : mem[x] >= f.run
                       /\ f.pc = "returned" => f.ret.items = alloc_results
                       /\ \A u \in Threads \ {t} :
                              Default(frames[u]) /\ frames[u].run > f.run =>
                                  \A x \in Range(alloc_results) : mem[x] > f.run
                /\ OwnOutputs(f) =>
                       /\ f.wrote \cap Range(alloc_results) = {}
                       /\ \A x \in Range(alloc_results) : mem[x] # f.run
                       /\ \A u \in Threads \ {t} :
                              /\ OwnOutputs(frames[u])
                              /\ Range(frames[u].out_tensors.list)
                                     \cap Range(f.out_tensors.list) = {}
                              => /\ f.wrote \cap Range(frames[u].out_tensors.list) = {}
                                 /\ \A y \in Range(frames[u].out_tensors.list) : mem[y] # f.run

\* a call without out_tensors has not returned yet and another thread's call
\* has already overwritten the default tensor it is about to return, while
\* nothing is left of its own kernel run
C6_Witness ==
    /\ status = "compiled"
    /\ NumOutputs >= 1
    /\ \E t \in Threads, u \in Threads :
           /\ t # u
           /\ frames[t].pc = "called" /\ frames[t].out_tensors.none
           /\ Default(frames[u])
           /\ mem[alloc_results[1]] = frames[u].run
           /\ frames[u].run > frames[t].run

---------------------------------------------------------------------------
(* Properties of nnc_compile's walk (specification SpecLower).             *)

InWalk == status \in {"walking", "failed"}

\* C3 as stated: whenever the walk comes to a node, every node it refers to
\* as an operand (nested ones and the output node's results included) has
\* exactly one entry in env, and no entry is written a second time.
C3_OperandsBound ==
    /\ \A i \in DOMAIN envWrites : envWrites[i] <= 1
    /\ status = "walking" /\ pc <= Len(graph) =>
           \A j \in ArgRefs(graph[pc].args) : env[j].bound /\ envWrites[j] = 1

\* the dtypes get_nnc_type accepts
Supported(dtype) == dtype \in {"float32", "int64", "float64"}

\* the walk disposed of the node named i by one of the described cases, or
\* compilation failed at it
Handled(i) ==
    LET nd == graph[i]
    IN  \/ visited[i] = "raised"
        \/ /\ nd.op \in {"placeholder", "get_attr"}
           /\ Supported(nd.meta.dtype)
           /\ visited[i] = "bound"
        \/ /\ nd.op = "call_function" /\ nd.meta.has /\ ~nd.kwargs
           /\ visited[i] = "bound"
        \/ /\ nd.op = "call_function" /\ ~nd.meta.has
           /\ nd.target \in {"getattr", "getitem"}
           /\ visited[i] = "skipped"
        \/ nd.op = "output" /\ visited[i] = "output"

\* C4 as stated: every node the walk meets is handled by one of the described
\* cases or makes compilation fail at that node; no other node is passed over.
C4_HandledOrFatal ==
    InWalk => \A i \in 1..Len(visited) : Handled(i)

\* C9 as stated: every inferred shape handed on downstream of shape inference
\* (placeholder and captured-state bindings, operand and output shapes given
\* to lowering rules, the shapes of the default output tensors) has rank >= 1.
C9_RankAtLeastOne ==
    \A r \in shapeLog : Len(r.shape) >= 1

---------------------------------------------------------------------------
(* Properties of remove_args (specification SpecRemove).                   *)

RECURSIVE Value(_, _, _)
\* the value the node named j computes in the graph g without the names in
\* gone, as a term over the graph's sources
Value(g, gone, j) ==
    IF j \in gone THEN [op |-> "erased", of |-> 0, kids |-> <<>>]
    ELSE [op |-> g[j].target, of |-> IF g[j].args = <<>> THEN j ELSE 0,
          kids |-> [i \in 1..Len(g[j].args) |->
                       [x \in 1..Len(g[j].args[i].ids) |-> Value(g, gone, g[j].args[i].ids[x])]]]

\* C7: the single pass removes exactly the nodes that had no consumer when it
\* started and are not the output node (so none that had a consumer, and none
\* that lost its only consumer during the pass), and the output node's value
\* is unchanged.
C7_RemovesUnused ==
    status = "removed" =>
        /\ erased = {j \in 1..Len(graph) :
                        Users(graph, {}, j) = {} /\ graph[j].op # "output"}
        /\ Value(graph, erased, Len(graph)) = Value(graph, {}, Len(graph))

\* an unused placeholder was removed, and a node whose only consumer was
\* removed is still there
C7_Witness ==
    /\ status = "removed"
    /\ \E j \in erased : graph[j].op = "placeholder"
    /\ \E i \in (1..Len(graph)) \ erased :
           /\ graph[i].op # "output"
           /\ Users(graph, {}, i) # {}
           /\ Users(graph, erased, i) = {}

---------------------------------------------------------------------------
(* Properties of truncate (specification SpecTruncate).                    *)

ValidK == status = "truncated" /\ 1 <= k /\ k <= Len(graph)

OutputNodesOf(g) == {i \in 1..Len(g) : g[i].op = "output"}

\* C8 as stated: for 1 <= k <= node count the returned graph has k nodes.
C8_NodeCountIsK ==
    ValidK => Len(new_graph) = k

\* C8 amended: for 1 <= k <= node count the returned graph has k + 1 nodes:
\* the copies of the first k original nodes in definition order, their operand
\* references rewired to the copies, then one appended output node whose
\* operand is the copy of the k-th original node.  It is the only output node
\* when k < node count; for k = node count the copy of the original output
\* node precedes it.
C8_CopiesThenOutput ==
    ValidK =>
        /\ Len(new_graph) = k + 1
        /\ \A i \in 1..k :
               /\ new_graph[i].op = graph[i].op
               /\ new_graph[i].target = graph[i].target
               /\ new_graph[i].meta = graph[i].meta
               /\ Len(new_graph[i].args) = Len(graph[i].args)
               /\ \A a \in 1..Len(graph[i].args) :
                      /\ new_graph[i].args[a].tag = graph[i].args[a].tag
                      /\ Len(new_graph[i].args[a].ids) = Len(graph[i].args[a].ids)
                      /\ \A x \in 1..Len(graph[i].args[a].ids) :
                             new_graph[i].args[a].ids[x] = tenv[graph[i].args[a].ids[x]]
               /\ tenv[i] = i
        /\ new_graph[k + 1].op = "output"
        /\ new_graph[k + 1].args = <<NodeArg(k)>>
        /\ OutputNodesOf(new_graph) = IF k = Len(graph) THEN {k, k + 1} ELSE {k + 1}

\* a truncation in the middle of a graph that copies a node with operands
C8_Witness ==
    /\ ValidK
    /\ 1 < k /\ k < Len(graph)
    /\ ArgRefs(graph[k].args) # {}

---------------------------------------------------------------------------
(* Properties of index_or_broadcast (specification SpecIndex).             *)

Min(a, b) == IF a <= b THEN a ELSE b

\* the operand element an index list reads
Element(indices) == [i \in 1..Len(indices) |-> indices[i].v]

\* C10: the result has one index per leading output axis up to the operand's
\* rank, the constant 0 where the operand's extent is exactly 1 and the output
\* index itself otherwise; so another output index on an axis of extent 1
\* reads the same operand element.
C10_IndexOrBroadcast ==
    status = "indexed" =>
        /\ Len(ib_out) = Min(Len(ib_shape), Len(ib_args))
        /\ \A i \in 1..Len(ib_out) :
               ib_out[i] = IF ib_shape[i] = 1 THEN IntExpr(0) ELSE ib_args[i]
        /\ /\ ib_prev.called
           /\ ib_prev.axis <= Len(ib_shape)
           /\ ib_shape[ib_prev.axis] = 1
           => Element(ib_out) = Element(ib_prev.out)

\* the output index was varied along a broadcast axis of an operand that has
\* another, non-broadcast axis and fewer axes than the output
C10_Witness ==
    /\ status = "indexed"
    /\ ib_prev.called
    /\ ib_prev.axis <= Len(ib_shape)
    /\ ib_shape[ib_prev.axis] = 1
    /\ \E i \in 1..Len(ib_shape) : ib_shape[i] > 1
    /\ Len(ib_args) > Len(ib_shape)

===========================================================================
